---- MODULE Spec2Model ----
(***************************************************************************)
(* Background task-execution engine of agent-pm                            *)
(* (src/agent_pm/storage/tasks.py, src/agent_pm/storage/redis.py).         *)
(*                                                                         *)
(* Two backends share one public contract: the in-memory TaskQueue and the *)
(* store-backed RedisTaskQueue.  settings.task_queue_backend selects one   *)
(* at construction; cfg.backend holds that choice.                        *)
(*                                                                         *)
(* Every `await` of a worker is one action, so that other workers,         *)
(* operator calls and stop() interleave where the event loop lets them.    *)
(* Fields named `fails`, `eff`, `existed`, `deleted`, and the variables    *)
(* alerts, autoDone and invoked are history variables: the code never      *)
(* reads them.                                                             *)
(***************************************************************************)
EXTENDS Integers, Sequences, FiniteSets, TLC

\* ---------------------------------------------------------------- bounds
MaxTasks == 2
MaxWorkers == 2
MaxRetries == 2
MaxTime == 2
MaxOpRequeues == 1
MaxFaults == 1
MaxStarts == 2
MaxPurges == 1
MaxAge == 1
MaxRejected == 1
MaxLists == 1
MaxLimit == 2
MaxOffset == 1
MaxAppends == 3
MaxAuditCap == 2
MaxAuditReads == 1

\* ------------------------------ settings, scaled down to a few ticks/units
\* settings.task_queue_max_auto_requeues (default 3)
MaxAutoRequeues == 1
\* settings.task_queue_alert_threshold (default 5)
AlertThreshold == 1
\* settings.task_queue_alert_window_minutes, in ticks
AlertWindow == 1
\* settings.task_queue_alert_cooldown_minutes, in ticks
AlertCooldown == 2
\* settings.task_queue_task_timeout, in ticks of handler duration
TaskTimeout == 1
\* settings.task_queue_heartbeat_ttl, in ticks
HeartbeatTtl == 1

\* ------------------------------------------------------------- universes
Workers == 0 .. (MaxWorkers - 1)
TaskIds == 1 .. MaxTasks
Names == {"a"}
Callables == {"ok", "boom", "flaky", "slow"}
NoCallable == "none"
NoWf == "none"
Workflows == {NoWf, "wf1"}
NoTime == -1
NoVal == -1
\* how long the "slow" handler runs, in the unit of the timeouts
SlowDuration == 2
LongTimeout == 3

NoPayload == [task_id |-> 0]
NoPolicy == [max_retries |-> NoVal, timeout |-> NoVal]
NoBeat == [task_id |-> 0]
NoList == [calls |-> 0]
\* no audit call made yet.  pc: "ltrim" between the two awaits of
\* append_dead_letter_audit; max_entries: its argument; limit, items: the
\* argument and the result of the last fetch_dead_letter_audit; calls, reads,
\* pushed, at: history (the calls made, every entry ever pushed with the
\* newest first, and the list the last read found)
NoAudit ==
    [pc |-> "idle", max_entries |-> 0, calls |-> 0, pushed |-> << >>,
     reads |-> 0, limit |-> NoVal, items |-> << >>, at |-> << >>]
\* a filter argument left at None
NoFilter == "none"
\* no purge call made yet.  mode: the call's kind ("all" or "age_filter");
\* count, cutoff, items, removed: locals of storage.redis.purge_dead_letters;
\* ret: its return value; existed, deleted: history (the entries the call
\* found, as <<task_id, recorded_at>>, and the task ids it deleted)
NoPurge ==
    [pc |-> "idle", mode |-> "none", count |-> 0, cutoff |-> NoTime, items |-> {},
     removed |-> 0, ret |-> NoVal, calls |-> 0, existed |-> {}, deleted |-> {}]

VARIABLES
    cfg,          \* the settings the queue was built with, and the budget of the environment
    now,          \* utc_now(), in ticks
    nextId,       \* number of task ids handed out so far
    registry,     \* RedisTaskQueue._registry: name -> callable
    flakyUsed,    \* the "flaky" handler's own state: invoked at least once
    queue,        \* redis list agent_pm:tasks
    results,      \* redis hash agent_pm:results
    deadLetters,  \* redis hash agent_pm:dead_letter
    policy,       \* redis hash agent_pm:retry_policy
    running,      \* TaskQueue.running
    pc,           \* where each worker coroutine is suspended
    cur,          \* the worker's local `payload` (memory backend: its Task)
    loc,          \* the worker's locals coro_fn, max_retries, timeout
    recent,       \* the worker's local recent_failures
    autoCounts,   \* the worker's local auto_requeue_counts
    lastAlert,    \* the worker's local last_alert_sent
    alertNow,     \* _send_alert's local `now`
    opPc,         \* an operator's requeue_dead_letter call in progress
    opPayload,    \* that call's local `payload`
    opRequeues,   \* number of operator requeue calls made
    faults,       \* number of injected store / Slack failures
    starts,       \* number of start() calls that launched workers
    memQueue,     \* TaskQueue.queue (task ids; the Task objects live in memTasks)
    memTasks,     \* TaskQueue.tasks
    audit,        \* redis list agent_pm:dead_letter:audit
    auditCall,    \* the append_dead_letter_audit call in flight, and the last read
    playbookRuns, \* number of calls of tasks.playbooks.run_playbook
    rejected,     \* history: enqueue calls that raised on serialization
    listed,       \* what the last list_dead_letters call was given and returned
    workers,      \* TaskQueue.workers: the pollers whose asyncio task is in the list
    stopPc,       \* a stop() call in progress: "gather" while it awaits the pollers
    heartbeats,   \* redis hash agent_pm:worker_heartbeats, keyed by worker
    hbExpireAt,   \* the time that hash key expires at (NoTime: no TTL set)
    purge,        \* a purge_dead_letters call in progress: its locals, and what it did
    alerts,       \* history: alerts dispatched, as <<worker, time>>
    autoDone,     \* history: automatic requeues completed, per identifier
    invoked       \* history: handler invocations per task id

vars == <<cfg, now, nextId, registry, flakyUsed, queue, results,
          deadLetters, policy, running, pc, cur, loc, recent, autoCounts,
          lastAlert, alertNow, opPc, opPayload, opRequeues, faults, starts,
          memQueue, memTasks, audit, auditCall, playbookRuns, rejected, listed, workers,
          stopPc, heartbeats,
          hbExpireAt,
          purge, alerts, autoDone, invoked>>

storeVars == <<queue, results, deadLetters, policy>>
workerVars == <<pc, cur, loc, recent, autoCounts, lastAlert, alertNow>>
opVars == <<opPc, opPayload, opRequeues>>
memVars == <<memQueue, memTasks>>
poolVars == <<workers, stopPc>>
auditVars == <<audit, auditCall>>
adminVars == <<auditVars, purge, playbookRuns, rejected, listed, poolVars>>
beatVars == <<heartbeats, hbExpireAt>>
histVars == <<alerts, autoDone, invoked>>

\* ------------------------------------------------------------ data model
Idents == Names \cup (Workflows \ {NoWf})

\* the payload dict built by RedisTaskQueue.enqueue; absent keys hold their
\* .get() defaults ("retry_count" -> 0) or "none"
NewPayload(id, name, mr, wf) ==
    [task_id |-> id, name |-> name, max_retries |-> mr, retry_count |-> 0,
     wf |-> wf, error_type |-> "none", last_error |-> "none",
     recorded_at |-> NoTime, requeued_at |-> NoTime, fails |-> 0, eff |-> NoVal]

\* the Task dataclass built by TaskQueue.enqueue
NewTask(id, name, fn, mr) ==
    [task_id |-> id, name |-> name, coro_fn |-> fn, status |-> "pending",
     retry_count |-> 0, max_retries |-> mr, result |-> "none", fails |-> 0]

NoTask == [task_id |-> 0, status |-> "absent"]

\* identifier = metadata.workflow_id or name
Identifier(p) == IF p.wf # NoWf THEN p.wf ELSE p.name

\* what a handler returns when it returns
ResultOf(fn) == "value_" \o fn

\* (variant: the handler is awaited with no deadline)
OutcomeNoDeadline(fn, timeout) ==
    IF fn = "boom" \/ (fn = "flaky" /\ ~flakyUsed) THEN "raise" ELSE "ok"

\* outcome of awaiting the handler under asyncio.wait_for(timeout)
Outcome(fn, timeout) ==
    IF fn = "slow" /\ SlowDuration > timeout THEN "timeout"
    ELSE IF fn = "boom" \/ (fn = "flaky" /\ ~flakyUsed) THEN "raise"
    ELSE "ok"

\* outcome of awaiting the handler with no deadline (in-memory backend)
MemOutcome(fn) ==
    IF fn = "boom" \/ (fn = "flaky" /\ ~flakyUsed) THEN "raise" ELSE "ok"

\* history: the effective max_retries of the attempts of this life of the
\* payload: NoVal before the first, n while all ran under n, -2 once mixed
NoteEff(old, n) == IF old = NoVal \/ old = n THEN n ELSE -2

\* record_dead_letter: stamps recorded_at only when the payload has none
WithRecordedAt(p) ==
    IF p.recorded_at = NoTime THEN [p EXCEPT !.recorded_at = now] ELSE p

record_dead_letter(dl, p) == [dl EXCEPT ![p.task_id] = WithRecordedAt(p)]

NoLocals == [coro_fn |-> NoCallable, max_retries |-> NoVal, timeout |-> NoVal, result |-> "none"]

PolicyChoices ==
    { [max_retries |-> 0, timeout |-> NoVal],
      [max_retries |-> 1, timeout |-> NoVal],
      [max_retries |-> NoVal, timeout |-> LongTimeout] }

\* The queue is built once from the settings; what the environment then does
\* (how many tasks producers submit, whether operators edit policies or
\* requeue, how often the clock advances, how many calls fail) is bounded per
\* scenario, so that each scenario stays small enough to explore in full.
\*   backend : settings.task_queue_backend
\*   auto    : the handlers' error type is in task_queue_auto_requeue_errors
\*   alert   : an alert channel is set, dry_run is off and Slack is enabled
\*   fns, retries : the handlers and the max_retries the producers submit
Scenario(b, au, al, t, po, re, o, st, f, ti, pu) ==
    [backend |-> b, auto |-> au, alert |-> al, tasks |-> t, policies |-> po,
     remote |-> re, ops |-> o, starts |-> st, faults |-> f, ticks |-> ti,
     purges |-> pu, fns |-> Callables, retries |-> MaxRetries,
     rejects |-> 0, lists |-> 0, race |-> FALSE, appends |-> 0]

Scenarios ==
    { \* in-memory queue, restarted at most MaxStarts - 1 times
      Scenario("memory", FALSE, FALSE, MaxTasks, FALSE, FALSE, 0, MaxStarts, 0, 0, 0),
      \* several tasks, local and remote producers
      Scenario("redis", FALSE, FALSE, MaxTasks, FALSE, TRUE, 0, 1, 0, 0, 0),
      \* one task, operators editing its retry policy
      Scenario("redis", FALSE, FALSE, 1, TRUE, FALSE, 0, 1, 0, 0, 0),
      \* auto-requeue on, operator requeue, restarts, failing store calls
      Scenario("redis", TRUE, FALSE, 1, FALSE, FALSE, MaxOpRequeues, MaxStarts, MaxFaults, 0, 0),
      \* alerting on, operator requeue, restarts, a failing Slack call, time
      Scenario("redis", FALSE, TRUE, 1, FALSE, FALSE, MaxOpRequeues, MaxStarts, MaxFaults, MaxTime, 0),
      \* auto-requeue and alerting on, a failing call, time
      Scenario("redis", TRUE, TRUE, 1, FALSE, FALSE, 0, 1, MaxFaults, MaxTime, 0),
      \* dead letters purged while workers and an operator go on, time
      \* (the producers submit tasks that fail at once)
      [Scenario("redis", FALSE, FALSE, MaxTasks, FALSE, FALSE, MaxOpRequeues, 1, 0, MaxTime, MaxPurges)
         EXCEPT !.fns = {"boom"}, !.retries = 0],
      \* heartbeats: tasks that succeed, time
      [Scenario("redis", FALSE, FALSE, MaxTasks, FALSE, FALSE, 0, 1, 0, MaxTime, 0)
         EXCEPT !.fns = {"ok"}, !.retries = 0],
      \* one task, and enqueue calls whose arguments json.dumps rejects
      [Scenario("redis", FALSE, FALSE, 1, FALSE, FALSE, 0, 1, 0, 0, 0)
         EXCEPT !.rejects = MaxRejected],
      \* dead letters of two error types, listed by an operator
      [Scenario("redis", FALSE, FALSE, MaxTasks, FALSE, FALSE, 0, 1, 0, 0, 0)
         EXCEPT !.fns = {"boom", "slow"}, !.retries = 0, !.lists = MaxLists],
      \* start() called while a stop() is still awaiting the pollers
      [Scenario("memory", FALSE, FALSE, 1, FALSE, FALSE, 0, MaxStarts, 0, 0, 0)
         EXCEPT !.fns = {"ok"}, !.retries = 0, !.race = TRUE],
      \* entries appended to the audit list and read back, next to one
      \* failing task
      [Scenario("redis", FALSE, FALSE, 1, FALSE, FALSE, 0, 1, 0, 0, 0)
         EXCEPT !.fns = {"boom"}, !.retries = 0, !.appends = MaxAppends] }

\* ------------------------------------------------------------------ Init
Init ==
    /\ cfg \in Scenarios
    /\ now = 0
    /\ nextId = 0
    /\ registry = [n \in Names |-> NoCallable]
    /\ flakyUsed = FALSE
    /\ queue = << >>
    /\ results = [t \in TaskIds |-> "none"]
    /\ deadLetters = [t \in TaskIds |-> NoPayload]
    /\ policy = [n \in Names |-> NoPolicy]
    /\ running = FALSE
    /\ pc = [w \in Workers |-> "off"]
    /\ cur = [w \in Workers |-> NoPayload]
    /\ loc = [w \in Workers |-> NoLocals]
    /\ recent = [w \in Workers |-> [i \in Idents |-> << >>]]
    /\ autoCounts = [w \in Workers |-> [i \in Idents |-> 0]]
    /\ lastAlert = [w \in Workers |-> NoTime]
    /\ alertNow = [w \in Workers |-> NoTime]
    /\ opPc = "idle"
    /\ opPayload = NoPayload
    /\ opRequeues = 0
    /\ faults = 0
    /\ starts = 0
    /\ memQueue = << >>
    /\ memTasks = [t \in TaskIds |-> NoTask]
    /\ audit = << >>
    /\ auditCall = NoAudit
    /\ playbookRuns = 0
    /\ rejected = 0
    /\ listed = NoList
    /\ workers = {}
    /\ stopPc = "idle"
    /\ heartbeats = [w \in Workers |-> NoBeat]
    /\ hbExpireAt = NoTime
    /\ purge = NoPurge
    /\ alerts = {}
    /\ autoDone = [i \in Idents |-> 0]
    /\ invoked = [t \in TaskIds |-> 0]

\* ------------------------------------------------- producers and operator
\* (variant: the push is dropped)
enqueue_task_lost(q, p) == q

\* (variant: LPUSH, the payload goes to the head of the list)
enqueue_task_front(q, p) == <<p>> \o q

\* storage.redis.enqueue_task: RPUSH to the tail of the list
enqueue_task(q, p) == Append(q, p)

\* RedisTaskQueue.enqueue: register(name, coro_fn), then rpush
Enqueue(name, fn, mr, wf) ==
    /\ cfg.backend = "redis"
    /\ nextId < cfg.tasks
    /\ fn \in cfg.fns /\ mr <= cfg.retries
    /\ nextId' = nextId + 1
    /\ registry' = [registry EXCEPT ![name] = fn]
    /\ queue' = enqueue_task(queue, NewPayload(nextId + 1, name, mr, wf))
    /\ UNCHANGED <<adminVars, beatVars, cfg, now, flakyUsed, results, deadLetters, policy,
                   running, workerVars, opVars, faults, starts, memVars, histVars>>

\* (variant: the item is pushed before the serialization fails)
enqueue_task_raising_late(q, p) == Append(q, p)

\* storage.redis.enqueue_task with a payload json.dumps rejects: the
\* TypeError is raised while the argument of rpush is evaluated
enqueue_task_raising(q, p) == q

\* RedisTaskQueue.enqueue with args that are not JSON-serializable:
\* register(name, coro_fn), then enqueue_task raises to the caller
EnqueueUnserializable(name, fn, mr, wf) ==
    /\ cfg.backend = "redis"
    /\ rejected < cfg.rejects
    /\ fn \in cfg.fns /\ mr <= cfg.retries
    /\ rejected' = rejected + 1
    /\ registry' = [registry EXCEPT ![name] = fn]
    /\ queue' = enqueue_task_raising(queue, NewPayload(nextId + 1, name, mr, wf))
    /\ UNCHANGED <<auditVars, purge, playbookRuns, listed, poolVars, beatVars,
                   cfg, now, nextId, flakyUsed, results, deadLetters, policy, running,
                   workerVars, opVars, faults, starts, memVars, histVars>>

\* storage.redis.enqueue_task called by a producer in another process: the
\* payload reaches the shared list, this process's registry is not touched
EnqueueRemote(name, mr, wf) ==
    /\ cfg.backend = "redis"
    /\ cfg.remote
    /\ nextId < cfg.tasks
    /\ mr <= cfg.retries
    /\ nextId' = nextId + 1
    /\ queue' = enqueue_task(queue, NewPayload(nextId + 1, name, mr, wf))
    /\ UNCHANGED <<adminVars, beatVars, cfg, now, registry, flakyUsed, results, deadLetters,
                   policy, running, workerVars, opVars, faults, starts, memVars,
                   histVars>>

\* TaskQueue.enqueue
MemEnqueue(name, fn, mr) ==
    /\ cfg.backend = "memory"
    /\ nextId < cfg.tasks
    /\ fn \in cfg.fns /\ mr <= cfg.retries
    /\ nextId' = nextId + 1
    /\ memQueue' = Append(memQueue, nextId + 1)
    /\ memTasks' = [memTasks EXCEPT ![nextId + 1] = NewTask(nextId + 1, name, fn, mr)]
    /\ UNCHANGED <<adminVars, beatVars, cfg, now, registry, flakyUsed, storeVars, running,
                   workerVars, opVars, faults, starts, histVars>>

\* storage.redis.set_retry_policy (non-empty policy)
SetRetryPolicy(name, pol) ==
    /\ cfg.backend = "redis"
    /\ cfg.policies
    /\ policy[name] # pol
    /\ policy' = [policy EXCEPT ![name] = pol]
    /\ UNCHANGED <<adminVars, beatVars, cfg, now, nextId, registry, flakyUsed, queue, results,
                   deadLetters, running, workerVars, opVars, faults, starts,
                   memVars, histVars>>

\* storage.redis.delete_retry_policy
DeleteRetryPolicy(name) ==
    /\ cfg.backend = "redis"
    /\ policy[name] # NoPolicy
    /\ policy' = [policy EXCEPT ![name] = NoPolicy]
    /\ UNCHANGED <<adminVars, beatVars, cfg, now, nextId, registry, flakyUsed, queue, results,
                   deadLetters, running, workerVars, opVars, faults, starts,
                   memVars, histVars>>

\* whether a key whose TTL ends at `at` is gone at time t
Expired(at, t) == at # NoTime /\ t > at

\* utc_now() advances; the store drops the heartbeat hash once the TTL set
\* on its key has run out
Tick ==
    /\ now < cfg.ticks
    /\ now' = now + 1
    /\ IF Expired(hbExpireAt, now + 1)
       THEN /\ heartbeats' = [w \in Workers |-> NoBeat]
            /\ hbExpireAt' = NoTime
       ELSE UNCHANGED beatVars
    /\ UNCHANGED <<adminVars, cfg, nextId, registry, flakyUsed, storeVars, running,
                   workerVars, opVars, faults, starts, memVars, histVars>>

\* TaskQueue.start: no-op when running, else launches max_workers pollers,
\* each with fresh locals
Start ==
    /\ ~running
    /\ starts < cfg.starts
    /\ stopPc = "idle" \/ cfg.race
    /\ \A w \in Workers : pc[w] \in {"off", "crashed"}
    /\ starts' = starts + 1
    /\ running' = TRUE
    /\ workers' = Workers
    /\ stopPc' = stopPc
    /\ pc' = [w \in Workers |-> "poll"]
    /\ cur' = [w \in Workers |-> NoPayload]
    /\ loc' = [w \in Workers |-> NoLocals]
    /\ recent' = [w \in Workers |-> [i \in Idents |-> << >>]]
    /\ autoCounts' = [w \in Workers |-> [i \in Idents |-> 0]]
    /\ lastAlert' = [w \in Workers |-> NoTime]
    /\ alertNow' = [w \in Workers |-> NoTime]
    /\ UNCHANGED <<auditVars, purge, playbookRuns, rejected, listed, beatVars, cfg,
                   now, nextId, registry, flakyUsed, storeVars, opVars, faults,
                   memVars, histVars>>

\* TaskQueue.stop: running = False, worker.cancel() for every poller.
\* cancel() raises CancelledError (a BaseException) at the await the poller
\* is suspended in; neither `except TimeoutError` nor `except Exception`
\* catches it, so the poller ends there and its locals are gone.
\* In the in-memory backend the Task object stays in self.tasks as it was.
\* The call then awaits asyncio.gather(*self.workers).
Stop ==
    /\ running
    /\ stopPc = "idle"
    /\ running' = FALSE
    /\ stopPc' = "gather"
    /\ workers' = workers
    /\ pc' = [w \in Workers |-> IF w \in workers THEN "off" ELSE pc[w]]
    /\ cur' = [w \in Workers |-> IF w \in workers THEN NoPayload ELSE cur[w]]
    /\ loc' = [w \in Workers |-> IF w \in workers THEN NoLocals ELSE loc[w]]
    /\ alertNow' = [w \in Workers |-> IF w \in workers THEN NoTime ELSE alertNow[w]]
    /\ UNCHANGED <<auditVars, purge, playbookRuns, rejected, listed, beatVars, cfg,
                   now, nextId, registry, flakyUsed, storeVars, recent,
                   autoCounts, lastAlert, opVars, faults, starts, memVars,
                   histVars>>

\* TaskQueue.stop after the gather: self.workers.clear(), whatever the list
\* holds by then
StopReturn ==
    /\ stopPc = "gather"
    /\ stopPc' = "idle"
    /\ workers' = {}
    /\ UNCHANGED <<auditVars, purge, playbookRuns, rejected, listed, beatVars, cfg,
                   now, nextId, registry, flakyUsed, storeVars, running,
                   workerVars, opVars, faults, starts, memVars, histVars>>

\* `while self.running:` is false at the top of the loop: the poller returns
WorkerExit(w) ==
    /\ pc[w] = "poll"
    /\ ~running
    /\ pc' = [pc EXCEPT ![w] = "off"]
    /\ UNCHANGED <<adminVars, beatVars, cfg, now, nextId, registry, flakyUsed,
                   storeVars, running, cur, loc, recent, autoCounts, lastAlert,
                   alertNow, opVars, faults, starts, memVars, histVars>>

\* ------------------------------------------------ RedisTaskQueue._worker
\* frame of a step of worker w that touches no store, operator or history state
WorkerFrame == <<adminVars, beatVars, cfg, now, nextId, registry, running, opVars, starts, memVars>>

\* (variant: the pop reads the head and leaves it in the list)
pop_task_peek(q) == q

\* storage.redis.pop_task: LPOP removes the head of the list
pop_task(q) == Tail(q)

\* (variant: the missing handler counted as a failed attempt)
MissingPayloadCounted(p) ==
    [p EXCEPT !.error_type = "MissingCallable", !.retry_count = p.retry_count + 1]

\* the payload of the `coro_fn is None` branch: error fields only
MissingPayload(p) == [p EXCEPT !.error_type = "MissingCallable"]

\* payload = await self.pop()  (LPOP), then the registry lookup.  A name with
\* no callable marks the payload MissingCallable and goes to record it.
Pop(w) ==
    /\ cfg.backend = "redis"
    /\ pc[w] = "poll"
    /\ running
    /\ queue # << >>
    /\ LET p == Head(queue)
           fn == registry[p.name]
       IN  /\ queue' = pop_task(queue)
           /\ IF fn = NoCallable
              THEN /\ cur' = [cur EXCEPT ![w] = MissingPayload(p)]
                   /\ pc' = [pc EXCEPT ![w] = "missing"]
                   /\ loc' = loc
              ELSE /\ cur' = [cur EXCEPT ![w] = p]
                   /\ pc' = [pc EXCEPT ![w] = "policy"]
                   /\ loc' = [loc EXCEPT ![w] = [NoLocals EXCEPT !.coro_fn = fn]]
    /\ UNCHANGED <<WorkerFrame, flakyUsed, results, deadLetters, policy, recent,
                   autoCounts, lastAlert, alertNow, faults, histVars>>

\* await record_dead_letter(...) of the MissingCallable branch; continue
RecordMissing(w) ==
    /\ pc[w] = "missing"
    /\ deadLetters' = record_dead_letter(deadLetters, cur[w])
    /\ pc' = [pc EXCEPT ![w] = "poll"]
    /\ cur' = [cur EXCEPT ![w] = NoPayload]
    /\ UNCHANGED <<WorkerFrame, flakyUsed, queue, results, policy, loc, recent,
                   autoCounts, lastAlert, alertNow, faults, histVars>>

\* (variant: the queue-wide default, whatever the policy says)
EffectiveTimeoutDefault(pol) == TaskTimeout

\* timeout = float(policy.get("timeout", self._task_timeout))
EffectiveTimeout(pol) == IF pol.timeout # NoVal THEN pol.timeout ELSE TaskTimeout

\* (variant: a policy value of 0 taken as "not set")
EffectiveMaxRetriesFalsy(pol, base) ==
    IF pol.max_retries # NoVal /\ pol.max_retries # 0 THEN pol.max_retries ELSE base

\* max_retries = int(policy.get("max_retries", base_max_retries))
EffectiveMaxRetries(pol, base) ==
    IF pol.max_retries # NoVal THEN pol.max_retries ELSE base

\* policy = await get_retry_policy(name) or {}; timeout and max_retries
GetRetryPolicy(w) ==
    /\ pc[w] = "policy"
    /\ LET pol == policy[cur[w].name]
           t == EffectiveTimeout(pol)
           m == EffectiveMaxRetries(pol, cur[w].max_retries)
       IN  loc' = [loc EXCEPT ![w].timeout = t, ![w].max_retries = m]
    /\ pc' = [pc EXCEPT ![w] = "exec"]
    /\ UNCHANGED <<WorkerFrame, flakyUsed, storeVars, cur, recent, autoCounts,
                   lastAlert, alertNow, faults, histVars>>

\* the payload after `except TimeoutError`
TimedOut(p, m) ==
    [p EXCEPT !.retry_count = p.retry_count + 1, !.last_error = "timeout",
              !.error_type = "TimeoutError", !.fails = p.fails + 1,
              !.eff = NoteEff(p.eff, m)]

\* (variant: one attempt too many) the failure is terminal only past the budget
ExhaustedLate(r, m) == r > m

\* whether the failure just counted is terminal
Exhausted(r, m) == r >= m

\* (variant: the failed attempt is not counted)
RaisedNotCounted(p, m) ==
    [p EXCEPT !.last_error = "boom",
              !.error_type = IF Exhausted(p.retry_count + 1, m) THEN "RuntimeError" ELSE p.error_type,
              !.fails = p.fails + 1, !.eff = NoteEff(p.eff, m)]

\* the payload after `except Exception`: retries += 1, last_error; the error
\* fields are set only when the retries are exhausted
Raised(p, m) ==
    LET r == p.retry_count + 1
    IN  [p EXCEPT !.retry_count = r, !.last_error = "boom",
                  !.error_type = IF Exhausted(r, m) THEN "RuntimeError" ELSE p.error_type,
                  !.fails = p.fails + 1, !.eff = NoteEff(p.eff, m)]

\* result = await asyncio.wait_for(coro_fn(...), timeout) and the three ways
\* it ends
Execute(w) ==
    /\ pc[w] = "exec"
    /\ LET fn == loc[w].coro_fn
           m == loc[w].max_retries
           out == Outcome(fn, loc[w].timeout)
       IN  /\ flakyUsed' = (flakyUsed \/ fn = "flaky")
           /\ invoked' = [invoked EXCEPT ![cur[w].task_id] = @ + 1]
           /\ CASE out = "ok" ->
                     /\ loc' = [loc EXCEPT ![w].result = ResultOf(fn)]
                     /\ cur' = [cur EXCEPT ![w].eff = NoteEff(@, m)]
                     /\ pc' = [pc EXCEPT ![w] = "result"]
                [] out = "timeout" ->
                     /\ loc' = loc
                     /\ cur' = [cur EXCEPT ![w] = TimedOut(@, m)]
                     /\ pc' = [pc EXCEPT ![w] = "dl_timeout"]
                [] out = "raise" ->
                     /\ loc' = loc
                     /\ cur' = [cur EXCEPT ![w] = Raised(@, m)]
                     /\ pc' = [pc EXCEPT ![w] =
                                 IF Exhausted(cur[w].retry_count + 1, m)
                                 THEN "dl_record" ELSE "backoff"]
    /\ UNCHANGED <<WorkerFrame, storeVars, recent, autoCounts, lastAlert,
                   alertNow, faults, alerts, autoDone>>

\* await record_dead_letter(...) of the TimeoutError branch; continue
RecordTimeout(w) ==
    /\ pc[w] = "dl_timeout"
    /\ deadLetters' = record_dead_letter(deadLetters, cur[w])
    /\ pc' = [pc EXCEPT ![w] = "poll"]
    /\ cur' = [cur EXCEPT ![w] = NoPayload]
    /\ loc' = [loc EXCEPT ![w] = NoLocals]
    /\ UNCHANGED <<WorkerFrame, flakyUsed, queue, results, policy, recent,
                   autoCounts, lastAlert, alertNow, faults, histVars>>

\* await asyncio.sleep(backoff); await redis_enqueue_task(name, payload)
Backoff(w) ==
    /\ pc[w] = "backoff"
    /\ queue' = enqueue_task(queue, cur[w])
    /\ pc' = [pc EXCEPT ![w] = "poll"]
    /\ cur' = [cur EXCEPT ![w] = NoPayload]
    /\ loc' = [loc EXCEPT ![w] = NoLocals]
    /\ UNCHANGED <<WorkerFrame, flakyUsed, results, deadLetters, policy, recent,
                   autoCounts, lastAlert, alertNow, faults, histVars>>

\* (variant: the write is dropped)
set_task_result_dropped(res, id, value) == res

\* storage.redis.set_task_result: HSET under the task_id
set_task_result(res, id, value) == [res EXCEPT ![id] = value]

\* await set_task_result(task_id, {"status": "completed", "result": result})
SetTaskResult(w) ==
    /\ pc[w] = "result"
    /\ results' = set_task_result(results, cur[w].task_id, loc[w].result)
    /\ pc' = [pc EXCEPT ![w] = "heartbeat"]
    /\ UNCHANGED <<WorkerFrame, flakyUsed, queue, deadLetters, policy, cur, loc,
                   recent, autoCounts, lastAlert, alertNow, faults, histVars>>

\* (variant: the heartbeat is not written)
write_heartbeat_skipped(hb, w, p) == hb

\* storage.redis.write_heartbeat, first call: HSET under the worker's id of
\* {worker_id, task_id, name, completed_at}
\* (armed: history, the time of the EXPIRE that followed this write)
write_heartbeat(hb, w, p) ==
    [hb EXCEPT ![w] = [task_id |-> p.task_id, completed_at |-> now,
                       armed |-> NoTime]]

\* await write_heartbeat(...): await client.hset(key, worker_id, payload)
WriteHeartbeat(w) ==
    /\ pc[w] = "heartbeat"
    /\ heartbeats' = write_heartbeat(heartbeats, w, cur[w])
    /\ pc' = [pc EXCEPT ![w] = "hb_expire"]
    /\ UNCHANGED <<adminVars, hbExpireAt, cfg, now, nextId, registry, running,
                   opVars, starts, memVars, flakyUsed, storeVars, cur, loc,
                   recent, autoCounts, lastAlert, alertNow, faults, histVars>>

\* await write_heartbeat(...): await client.expire(key, ttl), on the key of
\* the whole hash; end of the iteration
\* (EXPIRE on a key that has expired in between does nothing)
ExpireHeartbeats(w) ==
    /\ pc[w] = "hb_expire"
    /\ IF \A v \in Workers : heartbeats[v] = NoBeat
       THEN UNCHANGED beatVars
       ELSE /\ hbExpireAt' = now + HeartbeatTtl
            /\ heartbeats' = IF heartbeats[w] = NoBeat THEN heartbeats
                             ELSE [heartbeats EXCEPT ![w].armed = now]
    /\ pc' = [pc EXCEPT ![w] = "poll"]
    /\ cur' = [cur EXCEPT ![w] = NoPayload]
    /\ loc' = [loc EXCEPT ![w] = NoLocals]
    /\ UNCHANGED <<adminVars, cfg, now, nextId, registry, running,
                   opVars, starts, memVars, flakyUsed, storeVars, recent,
                   autoCounts, lastAlert, alertNow, faults, histVars>>

\* ------------------------------------------- auto-triage and alerting
\* _record_failure: append now, keep the entries inside the window
RecordFailure(w, i) ==
    SelectSeq(Append(recent[w][i], now), LAMBDA ts : ts >= now - AlertWindow)

\* (variant: the count has to pass the threshold)
ThresholdExceeded(entries) == Len(entries) > AlertThreshold

\* _record_failure's return value
ThresholdMet(entries) == Len(entries) >= AlertThreshold

\* _send_alert's cooldown test: not (last_sent and now - last_sent < cooldown)
Cooled(last) == last = NoTime \/ ~(now - last < AlertCooldown)

\* if _record_failure(error_type, identifier): await _send_alert(...); continue
\* _send_alert returns before its await when alerting is off (no channel,
\* dry run, Slack disabled) or the cooldown has not passed
AfterTriage(w, i) ==
    LET entries == RecordFailure(w, i)
    IN  /\ recent' = [recent EXCEPT ![w][i] = entries]
        /\ cur' = [cur EXCEPT ![w] = NoPayload]
        /\ loc' = [loc EXCEPT ![w] = NoLocals]
        /\ IF ThresholdMet(entries) /\ cfg.alert /\ Cooled(lastAlert[w])
           THEN /\ pc' = [pc EXCEPT ![w] = "alert"]
                /\ alertNow' = [alertNow EXCEPT ![w] = now]
           ELSE /\ pc' = [pc EXCEPT ![w] = "poll"]
                /\ alertNow' = alertNow

\* _should_auto_requeue(error_type) and count < max_auto_requeues
ShouldAutoRequeue(w, i) == cfg.auto /\ autoCounts[w][i] < MaxAutoRequeues

\* await record_dead_letter(...) of the `except Exception` branch, then the
\* auto-requeue decision
RecordDeadLetter(w) ==
    /\ pc[w] = "dl_record"
    /\ deadLetters' = record_dead_letter(deadLetters, cur[w])
    /\ IF ShouldAutoRequeue(w, Identifier(cur[w]))
       THEN /\ pc' = [pc EXCEPT ![w] = "rq_get"]
            /\ UNCHANGED <<cur, loc, recent, alertNow>>
       ELSE AfterTriage(w, Identifier(cur[w]))
    /\ UNCHANGED <<WorkerFrame, flakyUsed, queue, results, policy, autoCounts,
                   lastAlert, faults, histVars>>

\* (variant: the requeue keeps the retry count of the dead letter)
RequeuedKeepsCount(p) ==
    [p EXCEPT !.last_error = "none", !.requeued_at = now, !.fails = 0, !.eff = NoVal]

\* requeue_dead_letter, between clear_dead_letter and the rpush:
\* payload.pop("last_error"), retry_count = 0, requeued_at = now
Requeued(p) ==
    [p EXCEPT !.last_error = "none", !.retry_count = 0, !.requeued_at = now,
              !.fails = 0, !.eff = NoVal]

\* (variant: the requeue goes on with whatever get_dead_letter returned)
AbsentNever(d) == FALSE

\* requeue_dead_letter: `if payload is None: return None`
Absent(d) == d = NoPayload

\* requeue_dead_letter(automatic=True): payload = await get_dead_letter(task_id);
\* None returns at once, and the worker counts the requeue all the same
AutoRequeueGet(w) ==
    /\ pc[w] = "rq_get"
    /\ LET d == deadLetters[cur[w].task_id]
           i == Identifier(cur[w])
       IN  IF Absent(d)
           THEN /\ autoCounts' = [autoCounts EXCEPT ![w][i] = @ + 1]
                /\ AfterTriage(w, i)
           ELSE /\ cur' = [cur EXCEPT ![w] = d]
                /\ pc' = [pc EXCEPT ![w] = "rq_clear"]
                /\ UNCHANGED <<loc, recent, alertNow, autoCounts>>
    /\ UNCHANGED <<WorkerFrame, flakyUsed, storeVars, lastAlert, faults, histVars>>

\* requeue_dead_letter(automatic=True): await clear_dead_letter(task_id)
AutoRequeueClear(w) ==
    /\ pc[w] = "rq_clear"
    /\ deadLetters' = [deadLetters EXCEPT ![cur[w].task_id] = NoPayload]
    /\ pc' = [pc EXCEPT ![w] = "rq_enq"]
    /\ UNCHANGED <<WorkerFrame, flakyUsed, queue, results, policy, cur, loc,
                   recent, autoCounts, lastAlert, alertNow, faults, histVars>>

\* requeue_dead_letter(automatic=True): await redis_enqueue_task(...), then
\* auto_requeue_counts[key] = count + 1 and the alert evaluation
AutoRequeueEnqueue(w) ==
    /\ pc[w] = "rq_enq"
    /\ LET i == Identifier(cur[w])
       IN  /\ queue' = enqueue_task(queue, Requeued(cur[w]))
           /\ autoCounts' = [autoCounts EXCEPT ![w][i] = @ + 1]
           /\ autoDone' = [autoDone EXCEPT ![i] = @ + 1]
           /\ AfterTriage(w, i)
    /\ UNCHANGED <<WorkerFrame, flakyUsed, results, deadLetters, policy,
                   lastAlert, faults, alerts, invoked>>

\* a store call of the automatic requeue raises (connection error): nothing
\* around requeue_dead_letter catches it, the exception leaves _worker
AutoRequeueFault(w) ==
    /\ pc[w] \in {"rq_get", "rq_clear", "rq_enq"}
    /\ faults < cfg.faults
    /\ faults' = faults + 1
    /\ pc' = [pc EXCEPT ![w] = "crashed"]
    /\ cur' = [cur EXCEPT ![w] = NoPayload]
    /\ loc' = [loc EXCEPT ![w] = NoLocals]
    /\ UNCHANGED <<WorkerFrame, flakyUsed, storeVars, recent, autoCounts,
                   lastAlert, alertNow, histVars>>

\* await slack_client.post_digest(body, channel) returns:
\* last_alert_sent[error_type] = now (the `now` taken before the await)
PostAlert(w) ==
    /\ pc[w] = "alert"
    /\ lastAlert' = [lastAlert EXCEPT ![w] = alertNow[w]]
    /\ alerts' = alerts \cup {<<w, now>>}
    /\ alertNow' = [alertNow EXCEPT ![w] = NoTime]
    /\ pc' = [pc EXCEPT ![w] = "poll"]
    /\ UNCHANGED <<WorkerFrame, flakyUsed, storeVars, cur, loc, recent,
                   autoCounts, faults, autoDone, invoked>>

\* await slack_client.post_digest(...) raises: caught and logged
PostAlertFault(w) ==
    /\ pc[w] = "alert"
    /\ faults < cfg.faults
    /\ faults' = faults + 1
    /\ alertNow' = [alertNow EXCEPT ![w] = NoTime]
    /\ pc' = [pc EXCEPT ![w] = "poll"]
    /\ UNCHANGED <<WorkerFrame, flakyUsed, storeVars, cur, loc, recent,
                   autoCounts, lastAlert, histVars>>

\* ------------------------------------ operator requeue (admin API call)
OpFrame == <<adminVars, beatVars, cfg, now, nextId, registry, flakyUsed, running, workerVars,
             faults, starts, memVars, histVars>>

\* requeue_dead_letter(task_id): payload = await get_dead_letter(task_id)
OpRequeueGet(t) ==
    /\ cfg.backend = "redis"
    /\ opPc = "idle"
    /\ opRequeues < cfg.ops
    /\ t <= nextId
    /\ opRequeues' = opRequeues + 1
    /\ IF Absent(deadLetters[t])
       THEN UNCHANGED <<opPc, opPayload>>
       ELSE /\ opPc' = "clear"
            /\ opPayload' = deadLetters[t]
    /\ UNCHANGED <<OpFrame, storeVars>>

\* requeue_dead_letter(task_id): await clear_dead_letter(task_id)
OpRequeueClear ==
    /\ opPc = "clear"
    /\ deadLetters' = [deadLetters EXCEPT ![opPayload.task_id] = NoPayload]
    /\ opPc' = "enq"
    /\ UNCHANGED <<OpFrame, queue, results, policy, opPayload, opRequeues>>

\* requeue_dead_letter(task_id): await redis_enqueue_task(...); return payload
OpRequeueEnqueue ==
    /\ opPc = "enq"
    /\ queue' = enqueue_task(queue, Requeued(opPayload))
    /\ opPc' = "idle"
    /\ opPayload' = NoPayload
    /\ UNCHANGED <<OpFrame, results, deadLetters, policy, opRequeues>>

\* ------------------------------------- purge of dead letters (admin call)
PurgeFrame == <<auditVars, playbookRuns, rejected, listed, poolVars, beatVars, cfg, now, nextId, registry, flakyUsed, queue, results,
                policy, running, workerVars, opVars, faults, starts, memVars,
                histVars>>

\* the entries of the dead-letter hash, as <<task_id, recorded_at>>
Entries == {<<t, deadLetters[t].recorded_at>> : t \in {u \in TaskIds : deadLetters[u] # NoPayload}}

\* purge_dead_letters(older_than): `if not recorded: continue`, then
\* `if recorded_dt <= older_than`
Older(recorded, cutoff) == recorded # NoTime /\ recorded <= cutoff

\* ------------------------------------------------------ list_dead_letters
\* the limit and offset arguments an operator passes
ListLimits == 0 .. MaxLimit
ListOffsets == 0 .. MaxOffset

\* Python's s[a:b] on a list: a negative index counts from the end, and both
\* ends are clamped to the list
PyIndex(i, n) == IF i < 0 THEN (IF i + n < 0 THEN 0 ELSE i + n)
                 ELSE (IF i > n THEN n ELSE i)

\* (variant: the slice runs to the end of the list)
PySliceToEnd(seq, a, b) ==
    LET lo == PyIndex(a, Len(seq))
    IN  IF lo < Len(seq) THEN SubSeq(seq, lo + 1, Len(seq)) ELSE << >>

PySlice(seq, a, b) ==
    LET lo == PyIndex(a, Len(seq))
        hi == PyIndex(b, Len(seq))
    IN  IF lo < hi THEN SubSeq(seq, lo + 1, hi) ELSE << >>

\* storage.redis.fetch_dead_letters(limit=None, include_total=True): every
\* field of the hash (here in the order of the task ids)
fetch_dead_letters(dl) == SelectSeq(dl, LAMBDA p : p # NoPayload)

\* the two `continue` tests of list_dead_letters: a filter that is None or
\* empty is not applied
Kept(item, workflow_id, error_type) ==
    /\ ~(workflow_id # NoFilter /\ item.wf # workflow_id)
    /\ ~(error_type # NoFilter /\ item.error_type # error_type)

\* RedisTaskQueue.list_dead_letters: one store read, then filter and slice
ListDeadLetters(limit, offset, workflow_id, error_type) ==
    /\ cfg.backend = "redis"
    /\ listed.calls < cfg.lists
    /\ LET items == fetch_dead_letters(deadLetters)
           filtered == SelectSeq(items, LAMBDA it : Kept(it, workflow_id, error_type))
           total_filtered == Len(filtered)
           window == PySlice(filtered, offset, offset + limit)
       IN  listed' = [calls |-> listed.calls + 1, limit |-> limit,
                      offset |-> offset, workflow_id |-> workflow_id,
                      error_type |-> error_type, items |-> window,
                      total |-> total_filtered, at |-> deadLetters]
    /\ UNCHANGED <<auditVars, purge, playbookRuns, rejected, poolVars, beatVars,
                   cfg, now, nextId, registry, flakyUsed, storeVars, running, workerVars,
                   opVars, faults, starts, memVars, histVars>>

\* ------------------------------------------------- dead-letter audit list
AuditFrame == <<purge, playbookRuns, rejected, listed, poolVars, beatVars,
                cfg, now, nextId, registry, flakyUsed, storeVars, running,
                workerVars, opVars, faults, starts, memVars, histVars>>

\* the max_entries arguments a caller passes (positive; default 1000)
AuditCaps == 1 .. MaxAuditCap
\* the limit arguments a reader passes (default 100)
AuditLimits == 0 .. MaxLimit

\* LRANGE / LTRIM with a start of 0 and a stop >= 0: the entries at the
\* indexes 0 .. stop, both ends included
lrange(list, stop) ==
    IF Len(list) = 0 THEN << >>
    ELSE SubSeq(list, 1, IF stop + 1 < Len(list) THEN stop + 1 ELSE Len(list))

\* append_dead_letter_audit, up to its first await:
\* await client.lpush(key, json.dumps(payload))
AppendAuditPush(max_entries) ==
    /\ cfg.backend = "redis"
    /\ auditCall.pc = "idle"
    /\ auditCall.calls < cfg.appends
    /\ LET entry == auditCall.calls + 1
       IN  /\ audit' = <<entry>> \o audit
           /\ auditCall' = [auditCall EXCEPT !.pc = "ltrim",
                                             !.max_entries = max_entries,
                                             !.calls = entry,
                                             !.pushed = <<entry>> \o @]
    /\ UNCHANGED AuditFrame

\* append_dead_letter_audit, its second await:
\* await client.ltrim(key, 0, max_entries - 1)
AppendAuditTrim ==
    /\ auditCall.pc = "ltrim"
    /\ audit' = lrange(audit, auditCall.max_entries - 1)
    /\ auditCall' = [auditCall EXCEPT !.pc = "idle"]
    /\ UNCHANGED AuditFrame

\* fetch_dead_letter_audit(client, limit):
\* raw_entries = await client.lrange(key, 0, max(0, limit - 1))
fetch_dead_letter_audit(list, limit) ==
    lrange(list, IF limit - 1 > 0 THEN limit - 1 ELSE 0)

\* RedisTaskQueue.list_dead_letter_audit(limit)
ListDeadLetterAudit(limit) ==
    /\ cfg.backend = "redis"
    /\ cfg.appends > 0
    /\ auditCall.reads < MaxAuditReads
    /\ auditCall' = [auditCall EXCEPT !.reads = @ + 1, !.limit = limit,
                                      !.items = fetch_dead_letter_audit(audit, limit),
                                      !.at = audit]
    /\ UNCHANGED <<audit, AuditFrame>>

\* purge_dead_letters(): count = await client.hlen(key); `if count == 0: return 0`
PurgeAll ==
    /\ cfg.backend = "redis"
    /\ purge.pc = "idle"
    /\ purge.calls < cfg.purges
    /\ LET count == Cardinality(Entries)
       IN  purge' = [NoPurge EXCEPT !.calls = purge.calls + 1, !.mode = "all",
                                    !.existed = Entries, !.count = count,
                                    !.pc = IF count = 0 THEN "idle" ELSE "delete",
                                    !.ret = IF count = 0 THEN 0 ELSE NoVal]
    /\ UNCHANGED <<PurgeFrame, deadLetters>>

\* purge_dead_letters(): await client.delete(key); return int(count)
PurgeDelete ==
    /\ purge.pc = "delete"
    /\ deadLetters' = [t \in TaskIds |-> NoPayload]
    /\ purge' = [purge EXCEPT !.pc = "idle", !.ret = purge.count,
                              !.deleted = {e[1] : e \in Entries}]
    /\ UNCHANGED PurgeFrame

\* RedisTaskQueue.purge_dead_letters(older_than=age): cutoff = utc_now() - age;
\* items = await client.hgetall(key); the entries that are not old enough
\* are skipped without a store call
PurgeOlderThan(age) ==
    /\ cfg.backend = "redis"
    /\ purge.pc = "idle"
    /\ purge.calls < cfg.purges
    /\ LET cutoff == now - age
           items == {e[1] : e \in {x \in Entries : Older(x[2], cutoff)}}
       IN  purge' = [NoPurge EXCEPT !.calls = purge.calls + 1, !.mode = "age_filter",
                                    !.existed = Entries, !.cutoff = cutoff,
                                    !.items = items,
                                    !.pc = IF items = {} THEN "idle" ELSE "hdel",
                                    !.ret = IF items = {} THEN 0 ELSE NoVal]
    /\ UNCHANGED <<PurgeFrame, deadLetters>>

\* purge_dead_letters(older_than): await client.hdel(key, task_id);
\* removed += 1; after the last item, return removed
PurgeHdel(t) ==
    /\ purge.pc = "hdel"
    /\ t \in purge.items
    /\ deadLetters' = [deadLetters EXCEPT ![t] = NoPayload]
    /\ LET rest == purge.items \ {t}
           removed == purge.removed + 1
       IN  purge' = [purge EXCEPT !.items = rest, !.removed = removed,
                                  !.deleted = IF deadLetters[t] # NoPayload
                                              THEN @ \cup {t} ELSE @,
                                  !.pc = IF rest = {} THEN "idle" ELSE "hdel",
                                  !.ret = IF rest = {} THEN removed ELSE NoVal]
    /\ UNCHANGED PurgeFrame

\* TaskQueue.purge_dead_letters_older_than(age), which RedisTaskQueue does
\* not override: `return 0`, no store call.  (existed and cutoff are history
\* here: the entries present at the call and the cutoff the age stands for)
PurgeDeadLettersOlderThan(age) ==
    /\ purge.pc = "idle"
    /\ purge.calls < cfg.purges
    /\ purge' = [NoPurge EXCEPT !.calls = purge.calls + 1, !.mode = "older_than",
                                 !.existed = Entries, !.cutoff = now - age,
                                 !.ret = 0]
    /\ UNCHANGED <<PurgeFrame, deadLetters>>

\* ------------------------------------------------------ TaskQueue._worker
MemFrame == <<adminVars, beatVars, cfg, now, nextId, registry, storeVars, running, recent,
              autoCounts, lastAlert, alertNow, opVars, faults, starts, alerts,
              autoDone>>

\* popleft under the lock, then _execute_task up to its await:
\* status = RUNNING
MemPop(w) ==
    /\ cfg.backend = "memory"
    /\ pc[w] = "poll"
    /\ running
    /\ memQueue # << >>
    /\ LET t == Head(memQueue)
       IN  /\ memQueue' = Tail(memQueue)
           /\ memTasks' = [memTasks EXCEPT ![t].status = "running"]
           /\ cur' = [cur EXCEPT ![w] = [task_id |-> t]]
           /\ pc' = [pc EXCEPT ![w] = "mexec"]
    /\ UNCHANGED <<MemFrame, flakyUsed, loc, invoked>>

\* the Task after `except Exception` in _execute_task
MemFailed(task) ==
    LET r == task.retry_count + 1
    IN  [task EXCEPT !.retry_count = r, !.fails = task.fails + 1,
                     !.status = IF r < task.max_retries THEN "retrying" ELSE "failed"]

\* result = await task.coro_fn(...) and the two ways it ends
MemExecute(w) ==
    /\ pc[w] = "mexec"
    /\ LET t == cur[w].task_id
           task == memTasks[t]
       IN  /\ flakyUsed' = (flakyUsed \/ task.coro_fn = "flaky")
           /\ invoked' = [invoked EXCEPT ![t] = @ + 1]
           /\ IF MemOutcome(task.coro_fn) = "ok"
              THEN /\ memTasks' = [memTasks EXCEPT ![t].status = "completed",
                                       ![t].result = ResultOf(task.coro_fn)]
                   /\ pc' = [pc EXCEPT ![w] = "poll"]
                   /\ cur' = [cur EXCEPT ![w] = NoPayload]
              ELSE /\ memTasks' = [memTasks EXCEPT ![t] = MemFailed(task)]
                   /\ IF MemFailed(task).status = "retrying"
                      THEN /\ pc' = [pc EXCEPT ![w] = "mbackoff"]
                           /\ cur' = cur
                      ELSE /\ pc' = [pc EXCEPT ![w] = "poll"]
                           /\ cur' = [cur EXCEPT ![w] = NoPayload]
    /\ UNCHANGED <<MemFrame, memQueue, loc>>

\* await asyncio.sleep(min(2**retry_count, 60)); self.queue.append(task)
MemBackoff(w) ==
    /\ pc[w] = "mbackoff"
    /\ memQueue' = Append(memQueue, cur[w].task_id)
    /\ pc' = [pc EXCEPT ![w] = "poll"]
    /\ cur' = [cur EXCEPT ![w] = NoPayload]
    /\ UNCHANGED <<MemFrame, flakyUsed, memTasks, loc, invoked>>

\* ------------------------------------------------------------------ Next
WorkerStep(w) ==
    \/ Pop(w) \/ RecordMissing(w) \/ GetRetryPolicy(w) \/ Execute(w)
    \/ RecordTimeout(w) \/ Backoff(w) \/ SetTaskResult(w) \/ WriteHeartbeat(w)
    \/ ExpireHeartbeats(w)
    \/ RecordDeadLetter(w) \/ AutoRequeueGet(w) \/ AutoRequeueClear(w)
    \/ AutoRequeueEnqueue(w) \/ PostAlert(w)
    \/ MemPop(w) \/ MemExecute(w) \/ MemBackoff(w)

Next ==
    \/ \E n \in Names, fn \in Callables, mr \in 0 .. MaxRetries, wf \in Workflows :
          Enqueue(n, fn, mr, wf)
    \/ \E n \in Names, mr \in 0 .. MaxRetries, wf \in Workflows :
          EnqueueRemote(n, mr, wf)
    \/ \E n \in Names, fn \in Callables, mr \in 0 .. MaxRetries :
          MemEnqueue(n, fn, mr)
    \/ \E n \in Names, fn \in Callables, mr \in 0 .. MaxRetries, wf \in Workflows :
          EnqueueUnserializable(n, fn, mr, wf)
    \/ \E n \in Names, pol \in PolicyChoices : SetRetryPolicy(n, pol)
    \/ \E n \in Names : DeleteRetryPolicy(n)
    \/ \E limit \in ListLimits, offset \in ListOffsets,
          wf \in {NoFilter, "wf1"}, et \in {NoFilter, "TimeoutError"} :
          ListDeadLetters(limit, offset, wf, et)
    \/ \E max_entries \in AuditCaps : AppendAuditPush(max_entries)
    \/ AppendAuditTrim
    \/ \E limit \in AuditLimits : ListDeadLetterAudit(limit)
    \/ Tick
    \/ Start
    \/ Stop
    \/ StopReturn
    \/ \E w \in Workers : WorkerExit(w)
    \/ \E t \in TaskIds : OpRequeueGet(t)
    \/ OpRequeueClear
    \/ OpRequeueEnqueue
    \/ PurgeAll
    \/ PurgeDelete
    \/ \E age \in 0 .. MaxAge : PurgeOlderThan(age)
    \/ \E age \in 0 .. MaxAge : PurgeDeadLettersOlderThan(age)
    \/ \E t \in TaskIds : PurgeHdel(t)
    \/ \E w \in Workers : WorkerStep(w)
    \/ \E w \in Workers : AutoRequeueFault(w)
    \/ \E w \in Workers : PostAlertFault(w)

Spec == Init /\ [][Next]_vars

\* The engine while its pollers keep running: no stop(), no failing store
\* call, and the event loop schedules every coroutine that can take a step
\* (each poller, and a requeue call once it has started).
LiveNext ==
    \/ \E n \in Names, fn \in Callables, mr \in 0 .. MaxRetries, wf \in Workflows :
          Enqueue(n, fn, mr, wf)
    \/ \E n \in Names, mr \in 0 .. MaxRetries, wf \in Workflows :
          EnqueueRemote(n, mr, wf)
    \/ \E n \in Names, fn \in Callables, mr \in 0 .. MaxRetries :
          MemEnqueue(n, fn, mr)
    \/ \E n \in Names, pol \in PolicyChoices : SetRetryPolicy(n, pol)
    \/ \E n \in Names : DeleteRetryPolicy(n)
    \/ Tick
    \/ Start
    \/ \E t \in TaskIds : OpRequeueGet(t)
    \/ OpRequeueClear
    \/ OpRequeueEnqueue
    \/ \E w \in Workers : WorkerStep(w)

LiveSpec ==
    /\ Init
    /\ [][LiveNext]_vars
    /\ WF_vars(Start)
    /\ \A w \in Workers : WF_vars(WorkerStep(w))
    /\ WF_vars(OpRequeueClear)
    /\ WF_vars(OpRequeueEnqueue)

\* ======================================================== properties
Max(a, b) == IF a >= b THEN a ELSE b

QueuedIds == {queue[i].task_id : i \in DOMAIN queue}

\* worker w holds task t in its local payload
Holds(w, t) == cur[w] # NoPayload /\ cur[w].task_id = t

\* nothing will touch task t again unless someone requeues it: it is not in
\* the live queue, no worker holds it and no operator call holds it
Settled(t) ==
    /\ t <= nextId
    /\ t \notin QueuedIds
    /\ \A w \in Workers : ~Holds(w, t)
    /\ opPayload = NoPayload \/ opPayload.task_id # t
    /\ \A i \in DOMAIN memQueue : memQueue[i] # t

\* dead-letter records written by the `except Exception` branch in a life
\* of the task whose attempts all ran under one effective max_retries
ExceptionLetters ==
    {t \in TaskIds : /\ deadLetters[t] # NoPayload
                     /\ deadLetters[t].error_type = "RuntimeError"
                     /\ deadLetters[t].eff >= 0}

MemFailedTasks == {t \in TaskIds : memTasks[t].status = "failed"}

\* C1 (as claimed): with no auto-requeue configured, a task whose handler
\* always raises becomes terminal after exactly N failed invocations with
\* retry_count = N, N its effective max_retries, for every N >= 0.
C1_ExactlyNFailures_AsClaimed ==
    /\ ~cfg.auto =>
         \A t \in ExceptionLetters :
            /\ deadLetters[t].retry_count = deadLetters[t].eff
            /\ deadLetters[t].fails = deadLetters[t].eff
    /\ \A t \in MemFailedTasks :
            /\ memTasks[t].retry_count = memTasks[t].max_retries
            /\ memTasks[t].fails = memTasks[t].max_retries

\* C1 (amended): the terminal record holds retry_count = max(N, 1) after
\* exactly max(N, 1) failed invocations: N for N >= 1, and one for N = 0,
\* since the handler has to fail once before anything is terminal.
C1_ExactlyNFailures ==
    /\ ~cfg.auto =>
         \A t \in ExceptionLetters :
            /\ deadLetters[t].retry_count = Max(deadLetters[t].eff, 1)
            /\ deadLetters[t].fails = Max(deadLetters[t].eff, 1)
    /\ \A t \in MemFailedTasks :
            /\ memTasks[t].retry_count = Max(memTasks[t].max_retries, 1)
            /\ memTasks[t].fails = Max(memTasks[t].max_retries, 1)

\* C1 witness: a task dead-lettered after two failed attempts under N = 2
C1_Witness ==
    \E t \in ExceptionLetters :
        /\ ~cfg.auto
        /\ deadLetters[t].eff = MaxRetries
        /\ deadLetters[t].retry_count = MaxRetries

\* dead-lettered tasks with max_retries = 1 whose handler raised on the one
\* attempt made and would return on the next (the flaky handler has fired)
FlakyLetters ==
    {t \in ExceptionLetters : /\ deadLetters[t].max_retries = 1
                              /\ deadLetters[t].eff = 1
                              /\ registry[deadLetters[t].name] = "flaky"
                              /\ flakyUsed}

\* C2 (as claimed): a task with max_retries = 1 whose handler raises on its
\* first invocation and succeeds on its second ends with a Result record
\* holding the success value and with no dead-letter entry.
C2_FlakyEndsWithResult_AsClaimed ==
    \A t \in FlakyLetters :
        Settled(t) => (results[t] = ResultOf("flaky") /\ deadLetters[t] = NoPayload)

\* C2 (amended): under max_retries = 1 the first failure dead-letters the
\* task and the worker does not retry it; a second invocation is always made
\* from a requeued payload (automatic or operator requeue), with retry_count
\* 0, and its success is what the Result record then holds.
C2_FlakyEndsWithResult ==
    \A w \in Workers :
        (/\ pc[w] \in {"result", "heartbeat"}
         /\ cur[w].max_retries = 1
         /\ cur[w].eff = 1
         /\ invoked[cur[w].task_id] >= 2)
        => /\ cur[w].requeued_at # NoTime
           /\ cur[w].retry_count = 0
           /\ loc[w].result = ResultOf(loc[w].coro_fn)
           /\ (pc[w] = "heartbeat" => results[cur[w].task_id] = loc[w].result)

\* C2 witness: the test's case: whitelisted error, the task dead-lettered,
\* requeued automatically, and its second invocation's Result written
C2_Witness ==
    \E w \in Workers :
        /\ cfg.auto
        /\ pc[w] = "heartbeat"
        /\ cur[w].max_retries = 1
        /\ cur[w].eff = 1
        /\ invoked[cur[w].task_id] = 2
        /\ autoDone[Identifier(cur[w])] = 1
        /\ results[cur[w].task_id] = ResultOf("flaky")
        /\ deadLetters[cur[w].task_id] = NoPayload

\* C3 (as claimed): a timeout is a normal failure: the task is dead-lettered
\* with TimeoutError only once retry_count >= effective max_retries.
C3_TimeoutIsNormalFailure ==
    \A t \in TaskIds :
        (/\ deadLetters[t] # NoPayload
         /\ deadLetters[t].error_type = "TimeoutError"
         /\ deadLetters[t].eff >= 0)
        => deadLetters[t].retry_count >= deadLetters[t].eff

\* the outcome of task t is persisted: a Result record, a dead-letter record
\* or a copy in the live queue (in memory: a final status or the queue)
Persisted(t) ==
    IF cfg.backend = "redis"
    THEN results[t] # "none" \/ deadLetters[t] # NoPayload \/ t \in QueuedIds
    ELSE \/ memTasks[t].status \in {"completed", "failed"}
         \/ \E i \in DOMAIN memQueue : memQueue[i] = t

\* C5 (as claimed): stop() does not interrupt a handler that is executing:
\* the task's outcome is persisted before the poller exits.
C5_StopLetsHandlerFinish ==
    [][\A w \in Workers, t \in TaskIds :
          (pc[w] \in {"exec", "mexec"} /\ Holds(w, t) /\ pc'[w] = "off")
          => Persisted(t)']_vars

\* C6: a payload whose name has no registered handler is dead-lettered as
\* MissingCallable from the pop itself: no handler is resolved or invoked for
\* it, its retry_count is not incremented, and the worker never puts it back
\* in the queue (only a requeue does).
C6_MissingCallable ==
    /\ \A w \in Workers :
          /\ pc[w] = "missing" =>
                /\ cur[w].error_type = "MissingCallable"
                /\ cur[w].retry_count = 0 /\ cur[w].fails = 0
                /\ loc[w].coro_fn = NoCallable
          /\ pc[w] \in {"policy", "exec"} => loc[w].coro_fn # NoCallable
    /\ \A t \in TaskIds :
          (deadLetters[t] # NoPayload /\ deadLetters[t].error_type = "MissingCallable")
          => /\ deadLetters[t].retry_count = 0
             /\ deadLetters[t].fails = 0
             /\ deadLetters[t].last_error = "none"
    /\ \A i \in DOMAIN queue :
          queue[i].error_type = "MissingCallable" => queue[i].requeued_at # NoTime
    /\ \A t \in TaskIds :
          (/\ deadLetters[t] # NoPayload
           /\ deadLetters[t].error_type = "MissingCallable"
           /\ deadLetters[t].requeued_at = NoTime)
          => invoked[t] = 0

\* C6 witness: a remote task dead-lettered as MissingCallable, never invoked
C6_Witness ==
    \E t \in TaskIds :
        /\ deadLetters[t] # NoPayload
        /\ deadLetters[t].error_type = "MissingCallable"
        /\ invoked[t] = 0
        /\ Settled(t)

\* worker w is running the handler of task t, or about to
Executing(w, t) == Holds(w, t) /\ pc[w] \in {"policy", "exec"}

\* C7 (as claimed): a task_id with a dead-letter entry has no copy in the
\* live queue and is not being executed by any worker.
C7_DeadLetterNotLive ==
    \A t \in TaskIds :
        deadLetters[t] # NoPayload
        => (t \notin QueuedIds /\ \A w \in Workers : ~Executing(w, t))

\* C8 (as claimed): the automatic requeues performed for a pair never exceed
\* the configured cap.
C8_AutoRequeueCap == \A i \in Idents : autoDone[i] <= MaxAutoRequeues

\* C9 (as claimed): two alerts for one error type are never dispatched less
\* than a cooldown apart.
C9_OneAlertPerCooldown ==
    \A a \in alerts, b \in alerts :
        a # b => (a[2] - b[2] >= AlertCooldown \/ b[2] - a[2] >= AlertCooldown)

\* C10 (as claimed): no failure inside auto-triage or alerting ends a worker.
C10_TriageNeverEndsWorker == \A w \in Workers : pc[w] # "crashed"

\* task t is observable in a terminal state
Terminal(t) ==
    IF cfg.backend = "redis"
    THEN results[t] # "none" \/ deadLetters[t] # NoPayload
    ELSE memTasks[t].status \in {"completed", "failed"}

\* task t is somewhere: queued, held by a poller or by a requeue call in
\* progress, or terminal
Accounted(t) ==
    \/ Terminal(t)
    \/ t \in QueuedIds
    \/ \E i \in DOMAIN memQueue : memQueue[i] = t
    \/ \E w \in Workers : Holds(w, t)
    \/ (opPayload # NoPayload /\ opPayload.task_id = t)

C11_TriageFailureKeepsTask ==
    [][\A w \in Workers, t \in TaskIds :
          (Holds(w, t) /\ pc'[w] = "crashed") => Accounted(t)']_vars

\* the states a poller is in between a handler's failure and its next poll
Converting == {"dl_timeout", "dl_record", "backoff", "mbackoff",
               "rq_get", "rq_clear", "rq_enq", "alert"}

\* C12 (as claimed): after a handler raised or timed out, the poller that ran
\* it goes on, through the retry or the dead-lettering, to its next poll: it
\* ends nowhere else, unless stop() cancels it.
C12_HandlerFailureNeverEndsWorker ==
    [][\A w \in Workers :
          (pc[w] \in Converting \cup {"exec", "mexec"} /\ pc'[w] # pc[w])
          => pc'[w] \in Converting \cup {"poll", "result", "off"}]_vars

\* the step is the return of a requeue_dead_letter call that re-enqueued
\* task t: an operator's call, or the automatic one made by a poller
RequeueReturns(t) ==
    \/ opPc = "enq" /\ opPc' = "idle" /\ opPayload.task_id = t
    \/ \E w \in Workers : /\ pc[w] = "rq_enq" /\ pc'[w] \in {"poll", "alert"}
                          /\ cur[w].task_id = t

\* the payload a requeue call in progress read from the dead-letter map
RequeueRead(t) ==
    IF opPc = "enq" /\ opPayload.task_id = t THEN opPayload
    ELSE cur[CHOOSE w \in Workers : pc[w] = "rq_enq" /\ cur[w].task_id = t]

Last(q) == q[Len(q)]

\* C13: a requeue pushes (and returns) a payload whose retry_count is 0,
\* whatever retry_count the dead-letter entry held, so the requeued task
\* has its whole retry budget again.
C13_RequeueResetsRetryCount ==
    [][\A t \in TaskIds :
          RequeueReturns(t)
          => /\ Len(queue') = Len(queue) + 1
             /\ Last(queue').task_id = t
             /\ Last(queue').retry_count = 0
             /\ Last(queue').fails = 0]_vars

\* C13 witness: an entry dead-lettered with retry_count = MaxRetries is back
\* in the queue with retry_count 0 and not yet attempted again
C13_Witness ==
    \E i \in DOMAIN queue :
        /\ queue[i].requeued_at # NoTime
        /\ queue[i].error_type = "RuntimeError"
        /\ queue[i].max_retries = MaxRetries
        /\ queue[i].retry_count = 0
        /\ invoked[queue[i].task_id] = MaxRetries

\* C14 (as claimed): when a requeue of an existing entry returns, the
\* dead-letter map has no entry for the task_id and the tail of the live
\* queue is the entry's payload (same task_id, name, arguments, metadata).
C14_RequeueMovesEntry ==
    [][\A t \in TaskIds :
          RequeueReturns(t)
          => /\ deadLetters'[t] = NoPayload
             /\ Last(queue').task_id = t
             /\ Last(queue').name = RequeueRead(t).name
             /\ Last(queue').wf = RequeueRead(t).wf
             /\ Last(queue').max_retries = RequeueRead(t).max_retries]_vars

\* C15: a requeue of a task_id that has no dead-letter entry returns absent
\* at once: the live queue, the dead-letter map and the result map are
\* unchanged and no requeue is left in progress.
C15_RequeueAbsent ==
    [][/\ \A t \in TaskIds :
             (OpRequeueGet(t) /\ deadLetters[t] = NoPayload)
             => (UNCHANGED <<queue, deadLetters, results>> /\ opPc' = "idle"
                 /\ opPayload' = NoPayload)
       /\ \A w \in Workers :
             (AutoRequeueGet(w) /\ deadLetters[cur[w].task_id] = NoPayload)
             => (UNCHANGED <<queue, deadLetters, results>>
                 /\ pc'[w] \in {"poll", "alert"})]_vars

\* C15 witness: an operator asked for the requeue of a task that is not
\* dead-lettered (it is still in the live queue), and nothing was done
C15_Witness ==
    /\ opRequeues = 1
    /\ opPc = "idle"
    /\ nextId = 1
    /\ queue # << >>
    /\ Head(queue).requeued_at = NoTime
    /\ deadLetters[1] = NoPayload
    /\ invoked[1] = 0

\* the step is the return of a purge call of the given mode
PurgeReturns(mode) ==
    /\ purge'.mode = mode
    /\ purge'.ret # NoVal
    /\ (purge.ret = NoVal \/ purge.calls # purge'.calls)

\* C16 (as claimed): a purge without an age bound returns exactly the number
\* of entries it removed and leaves none of the entries that existed when it
\* was called, also when a worker records a dead letter meanwhile (stated
\* here for the runs in which no operator requeue interferes).
C16_PurgeAllExactCount ==
    [][(PurgeReturns("all") /\ opRequeues' = 0)
       => /\ purge'.ret = Cardinality(purge'.deleted)
          /\ \A e \in purge'.existed : deadLetters'[e[1]] = NoPayload]_vars

\* the entries an age-bounded purge found at or before its cutoff
OldEntries(pu) == {e[1] : e \in {x \in pu.existed : x[2] <= pu.cutoff}}

\* C17 (as claimed): a purge with an age bound removes exactly the entries
\* whose recorded_at is at or before the cutoff, leaves the newer ones, and
\* returns the number it removed.
C17_PurgeByAge ==
    [][PurgeReturns("age_filter")
       => /\ purge'.deleted = OldEntries(purge')
          /\ purge'.ret = Cardinality(purge'.deleted)]_vars

\* the step writes a dead-letter record
RecordsDeadLetter ==
    \E t \in TaskIds : deadLetters'[t] # NoPayload /\ deadLetters'[t] # deadLetters[t]

\* C18 (as claimed): every dead-letter record, every requeue and every purge
\* made through the queue appends exactly one entry to the audit list.
C18_AuditEveryEvent ==
    [][(\/ RecordsDeadLetter
        \/ \E t \in TaskIds : RequeueReturns(t)
        \/ (PurgeReturns("all") /\ purge'.deleted # {})
        \/ (PurgeReturns("age_filter") /\ purge'.deleted # {}))
       => Len(audit') = Len(audit) + 1]_vars

\* C19: a pop hands the head of the queue to the one poller that popped and
\* removes it, so no payload goes to two pollers and none is skipped; where
\* every task_id has a single payload (no requeue in play), no two pollers
\* ever hold the same task and a held task is not in the queue.
C19_PopExclusive ==
    /\ [](\A t \in TaskIds, w \in Workers :
            (cfg.ops = 0 /\ ~cfg.auto /\ Holds(w, t))
            => /\ t \notin QueuedIds
               /\ \A i \in DOMAIN memQueue : memQueue[i] # t
               /\ \A v \in Workers \ {w} : ~Holds(v, t))
    /\ [][\A w \in Workers :
            /\ (pc[w] = "poll" /\ pc'[w] \in {"policy", "missing"})
               => /\ queue # << >>
                  /\ queue' = Tail(queue)
                  /\ cur'[w].task_id = Head(queue).task_id
                  /\ \A v \in Workers \ {w} : cur'[v] = cur[v]
            /\ (pc[w] = "poll" /\ pc'[w] = "mexec")
               => /\ memQueue # << >>
                  /\ memQueue' = Tail(memQueue)
                  /\ cur'[w].task_id = Head(memQueue)
                  /\ \A v \in Workers \ {w} : cur'[v] = cur[v]]_vars

\* C19 witness: two pollers popped concurrently and each holds its own task
C19_Witness ==
    /\ \A w \in Workers : pc[w] \in {"policy", "exec", "mexec"}
    /\ \E w \in Workers : Holds(w, 1)
    /\ \E w \in Workers : Holds(w, 2)
    /\ queue = << >> /\ memQueue = << >>

\* a payload that no poller has popped yet
Fresh(p) == p.retry_count = 0 /\ p.requeued_at = NoTime /\ p.error_type = "none"

FreshIds == {queue[i].task_id : i \in {j \in DOMAIN queue : Fresh(queue[j])}}
    \cup {memQueue[i] : i \in {j \in DOMAIN memQueue : memTasks[memQueue[j]].status = "pending"}}

\* C20: task ids are handed out in enqueue order.  The payloads waiting for
\* their first attempt stand in the queue in that order, and none of them
\* waits while a task enqueued after it has already been popped; a failed
\* task that is retried is appended at the tail.
C20_FifoFirstAttempts ==
    /\ [](/\ \A i, j \in DOMAIN queue :
               (i < j /\ Fresh(queue[i]) /\ Fresh(queue[j]))
               => queue[i].task_id < queue[j].task_id
          /\ \A i, j \in DOMAIN memQueue :
               (i < j /\ memTasks[memQueue[i]].status = "pending"
                      /\ memTasks[memQueue[j]].status = "pending")
               => memQueue[i] < memQueue[j]
          /\ \A t \in FreshIds, u \in TaskIds :
               (t < u /\ u <= nextId) => u \in FreshIds)
    /\ [][\A w \in Workers :
            /\ (pc[w] = "backoff" /\ pc'[w] = "poll")
               => (queue' = queue \o <<cur[w]>> /\ cur[w].retry_count > 0)
            /\ (pc[w] = "mbackoff" /\ pc'[w] = "poll")
               => memQueue' = memQueue \o <<cur[w].task_id>>]_vars

\* C20 witness: task 1 failed and was re-enqueued behind task 2, which was
\* enqueued after it and still waits for its first attempt
C20_Witness ==
    /\ Len(queue) = 2
    /\ Fresh(queue[1]) /\ queue[1].task_id = 2
    /\ queue[2].task_id = 1 /\ queue[2].retry_count > 0

\* the fields of a payload that identify the task and its arguments
SameTask(p, q) ==
    /\ p.task_id = q.task_id /\ p.name = q.name /\ p.wf = q.wf
    /\ p.max_retries = q.max_retries
    /\ p.recorded_at = q.recorded_at /\ p.requeued_at = q.requeued_at

\* C21: a failed attempt that is to be retried raises the payload's
\* retry_count by exactly one and changes nothing that identifies the task,
\* and the payload pushed after the backoff is that payload: a retry resets
\* no counter.  In memory the Task object itself goes back into the queue.
C21_RetryKeepsPayload ==
    [][\A w \in Workers :
          /\ (pc[w] = "exec" /\ pc'[w] = "backoff")
             => /\ SameTask(cur'[w], cur[w])
                /\ cur'[w].retry_count = cur[w].retry_count + 1
                /\ cur'[w].fails = cur[w].fails + 1
          /\ (pc[w] = "backoff" /\ pc'[w] = "poll")
             => /\ Len(queue') = Len(queue) + 1
                /\ Last(queue') = cur[w]
          /\ \A t \in TaskIds :
                (pc[w] = "mexec" /\ Holds(w, t) /\ pc'[w] = "mbackoff")
                => /\ memTasks'[t].retry_count = memTasks[t].retry_count + 1
                   /\ memTasks'[t].name = memTasks[t].name
                   /\ memTasks'[t].coro_fn = memTasks[t].coro_fn
                   /\ memTasks'[t].max_retries = memTasks[t].max_retries
          /\ \A t \in TaskIds :
                (pc[w] = "mbackoff" /\ Holds(w, t) /\ pc'[w] = "poll")
                => (memQueue' = memQueue \o <<t>> /\ memTasks' = memTasks)]_vars

\* C21 witness: a payload with a workflow id, back in the queue after its
\* first failed attempt with retry_count 1
C21_Witness ==
    \E i \in DOMAIN queue :
        /\ queue[i].retry_count = 1
        /\ queue[i].fails = 1
        /\ queue[i].wf # NoWf
        /\ queue[i].requeued_at = NoTime
        /\ invoked[queue[i].task_id] = 1

\* C22: a stored policy with max_retries = 0 makes the attempt run under a
\* budget of 0 whatever the envelope carries, and a failure under that budget
\* goes to the dead-letter record, never to the backoff and re-enqueue: a
\* task whose attempts all ran under it is dead-lettered by its first failure.
C22_PolicyZeroIsTerminal ==
    /\ [][\A w \in Workers :
            /\ (/\ pc[w] = "policy" /\ pc'[w] = "exec"
                /\ policy[cur[w].name].max_retries = 0)
               => loc'[w].max_retries = 0
            /\ (pc[w] = "exec" /\ loc[w].max_retries = 0 /\ pc'[w] # "exec")
               => pc'[w] \in {"result", "dl_record", "dl_timeout", "off"}]_vars
    /\ [](\A t \in TaskIds :
            (deadLetters[t] # NoPayload /\ deadLetters[t].eff = 0)
            => (deadLetters[t].fails = 1 /\ deadLetters[t].retry_count = 1))

\* C22 witness: an envelope with max_retries = MaxRetries, dead-lettered by
\* its first failure under a policy of 0
C22_Witness ==
    \E t \in TaskIds :
        /\ deadLetters[t] # NoPayload
        /\ deadLetters[t].max_retries = MaxRetries
        /\ deadLetters[t].eff = 0
        /\ deadLetters[t].error_type = "RuntimeError"
        /\ invoked[t] = 1
        /\ Settled(t)

\* the way an attempt ends, from the values its poller read after the pop
EndsAs(w) ==
    LET fn == loc[w].coro_fn
    IN  IF fn = "slow" /\ SlowDuration > loc[w].timeout THEN {"dl_timeout"}
        ELSE IF fn = "boom" \/ (fn = "flaky" /\ ~flakyUsed)
             THEN IF cur[w].retry_count + 1 >= loc[w].max_retries
                  THEN {"dl_record"} ELSE {"backoff"}
             ELSE {"result"}

\* C23: the policy is read from the store after every pop, so the attempt
\* runs under the policy stored at that moment; a set or delete of a policy
\* changes no poller's values, and an attempt in flight ends as the values
\* it read say, whatever the policy has become.
C23_PolicyReadPerPop ==
    [][/\ \A w \in Workers :
             (pc[w] = "policy" /\ pc'[w] = "exec")
             => LET pol == policy[cur[w].name]
                IN  /\ loc'[w].timeout =
                          IF pol.timeout # NoVal THEN pol.timeout ELSE TaskTimeout
                    /\ loc'[w].max_retries =
                          IF pol.max_retries # NoVal THEN pol.max_retries
                          ELSE cur[w].max_retries
       /\ policy' # policy => (loc' = loc /\ cur' = cur /\ pc' = pc)
       /\ \A w \in Workers :
             (pc[w] = "exec" /\ pc'[w] \notin {"exec", "off"})
             => pc'[w] \in EndsAs(w)]_vars

\* C23 witness: an attempt made under a budget of MaxRetries is being
\* retried although the policy has meanwhile been set to max_retries = 0
C23_Witness ==
    \E w \in Workers :
        /\ pc[w] = "backoff"
        /\ loc[w].max_retries = MaxRetries
        /\ policy[cur[w].name].max_retries = 0

\* a heartbeat record as the hash holds it (without the history field)
Stored(h) ==
    IF h = NoBeat THEN h ELSE [task_id |-> h.task_id, completed_at |-> h.completed_at]

\* C24: a worker's heartbeat record is written only by the step that follows
\* the write of the Result of the task the worker holds: the handler has
\* returned, the Result is stored, and the record names that task.  No step
\* of the retry, dead-letter, timeout or missing-handler paths writes one,
\* so every record names a task that has a Result.
C24_HeartbeatOnlyAfterSuccess ==
    /\ [][\A w \in Workers :
            (Stored(heartbeats'[w]) # Stored(heartbeats[w]) /\ heartbeats'[w] # NoBeat)
            => /\ pc[w] = "heartbeat"
               /\ loc[w].result # "none"
               /\ results[cur[w].task_id] = loc[w].result
               /\ heartbeats'[w].task_id = cur[w].task_id]_vars
    /\ [](\A w \in Workers :
            heartbeats[w] # NoBeat => results[heartbeats[w].task_id] # "none")

\* C24 witness: a worker has a heartbeat for one task while another task has
\* been dead-lettered without a Result and appears in no heartbeat
C24_Witness ==
    \E w \in Workers : \E t \in TaskIds :
        /\ heartbeats[w] # NoBeat
        /\ heartbeats[w].task_id # t
        /\ deadLetters[t] # NoPayload
        /\ results[t] = "none"
        /\ \A v \in Workers : heartbeats[v] = NoBeat \/ heartbeats[v].task_id # t

\* C25: a worker's heartbeat record is gone once HeartbeatTtl has passed
\* since the expiry that followed its write was set, whatever the other
\* workers have written in the meantime.
C25_OwnTtl ==
    \A w \in Workers :
        (heartbeats[w] # NoBeat /\ heartbeats[w].armed # NoTime)
        => now <= heartbeats[w].armed + HeartbeatTtl

\* C26: an attempt whose handler returns within the timeout goes on to the
\* write of the Result; that write stores the returned value under the
\* task's id, and the step after it writes the heartbeat record of that
\* worker for that task.  Neither step writes a dead-letter entry or pushes
\* anything on the queue.
C26_SuccessPath ==
    [][\A w \in Workers :
         /\ (pc[w] = "exec" /\ pc'[w] = "result")
            => /\ Outcome(loc[w].coro_fn, loc[w].timeout) = "ok"
               /\ loc'[w].result = ResultOf(loc[w].coro_fn)
               /\ deadLetters' = deadLetters /\ queue' = queue
         /\ (pc[w] = "result" /\ pc'[w] # "result" /\ running')
            => /\ pc'[w] = "heartbeat"
               /\ results'[cur[w].task_id] = loc[w].result
               /\ \A t \in TaskIds \ {cur[w].task_id} : results'[t] = results[t]
               /\ deadLetters' = deadLetters /\ queue' = queue
         /\ (pc[w] = "heartbeat" /\ pc'[w] # "heartbeat" /\ running')
            => /\ pc'[w] = "hb_expire"
               /\ heartbeats'[w].task_id = cur[w].task_id
               /\ heartbeats'[w].completed_at = now
               /\ deadLetters' = deadLetters /\ queue' = queue
         /\ (pc[w] = "hb_expire" /\ pc'[w] # "hb_expire" /\ running')
            => /\ pc'[w] = "poll"
               /\ deadLetters' = deadLetters /\ queue' = queue]_vars

\* C26 witness: a task run once has its Result and its worker's heartbeat,
\* no dead-letter entry, and is nowhere in the queue
C26_Witness ==
    \E w \in Workers : \E t \in TaskIds :
        /\ results[t] = ResultOf("ok")
        /\ heartbeats[w] # NoBeat
        /\ heartbeats[w].task_id = t
        /\ deadLetters[t] = NoPayload
        /\ invoked[t] = 1
        /\ Settled(t)

\* C27: a handler that runs longer than the timeout of its attempt (the
\* policy's timeout for the task's name when one is stored, else the queue's
\* default) is cut off: the attempt goes to the dead-letter write of the
\* timeout branch, which stores the task with error_type TimeoutError, and no
\* Result is written on the way; a task dead-lettered so has no Result.
C27_TimeoutIsDeadLettered ==
    /\ [][\A w \in Workers :
            /\ (pc[w] = "policy" /\ pc'[w] = "exec")
               => loc'[w].timeout =
                     IF policy[cur[w].name].timeout # NoVal
                     THEN policy[cur[w].name].timeout ELSE TaskTimeout
            /\ (/\ pc[w] = "exec" /\ pc'[w] # "exec" /\ running'
                /\ loc[w].coro_fn = "slow" /\ SlowDuration > loc[w].timeout)
               => (pc'[w] = "dl_timeout" /\ results' = results)
            /\ (pc[w] = "dl_timeout" /\ pc'[w] # "dl_timeout" /\ running')
               => /\ deadLetters'[cur[w].task_id] # NoPayload
                  /\ deadLetters'[cur[w].task_id].error_type = "TimeoutError"
                  /\ results' = results
                  /\ queue' = queue]_vars
    /\ [](\A t \in TaskIds :
            (deadLetters[t] # NoPayload /\ deadLetters[t].error_type = "TimeoutError")
            => results[t] = "none")

\* C27 witness: a task invoked once is a TimeoutError dead letter with no Result
C27_Witness ==
    \E t \in TaskIds :
        /\ deadLetters[t] # NoPayload
        /\ deadLetters[t].error_type = "TimeoutError"
        /\ results[t] = "none"
        /\ invoked[t] = 1
        /\ Settled(t)

\* C27 witness of the other side: under a policy timeout longer than the
\* handler's run the same handler completes
C27_WitnessLongTimeout ==
    \E t \in TaskIds : \E w \in Workers :
        /\ pc[w] = "result"
        /\ cur[w].task_id = t
        /\ loc[w].coro_fn = "slow"
        /\ loc[w].timeout = LongTimeout

\* C28: the Result of a task is written at most once: the write of a Result
\* finds no Result stored under that task's id, and a stored Result never
\* changes afterwards.
C28_ResultWrittenOnce ==
    [][/\ \A w \in Workers :
             (pc[w] = "result" /\ pc'[w] = "heartbeat")
             => results[cur[w].task_id] = "none"
       /\ \A t \in TaskIds :
             results[t] # "none" => results'[t] = results[t]]_vars

\* C29: every alert dispatched is a run of the configured playbook.
C29_DispatchRunsPlaybook ==
    [][alerts' # alerts => playbookRuns' = playbookRuns + 1]_vars

\* C30: an enqueue call whose payload cannot be serialized raises before the
\* push: the step leaves the live queue, the Results and the dead letters as
\* they were and hands nothing to a poller, and no id is consumed; whatever
\* a poller later pops is an item some successful enqueue pushed.
C30_UnserializableWritesNothing ==
    /\ [][rejected' # rejected
          => /\ queue' = queue
             /\ results' = results
             /\ deadLetters' = deadLetters
             /\ nextId' = nextId
             /\ cur' = cur /\ pc' = pc]_vars
    /\ [](/\ \A i \in DOMAIN queue : queue[i].task_id \in 1 .. nextId
          /\ \A w \in Workers : cur[w] = NoPayload \/ cur[w].task_id \in 1 .. nextId)

\* C30 witness: an enqueue was rejected while a task was queued and the
\* pollers were running, and that task is the only thing a poller then holds
C30_Witness ==
    /\ rejected = 1
    /\ running
    /\ queue = << >>
    /\ nextId = 1
    /\ \E w \in Workers : pc[w] = "exec" /\ cur[w].task_id = 1

\* the ids of the entries of the dead-letter map dl that pass the filters
Matching(dl, workflow_id, error_type) ==
    {t \in TaskIds : /\ dl[t] # NoPayload
                     /\ (workflow_id = NoFilter \/ dl[t].wf = workflow_id)
                     /\ (error_type = NoFilter \/ dl[t].error_type = error_type)}

\* the position (from 0) of entry t among the entries of M
Rank(t, M) == Cardinality({u \in M : u < t})

\* C31: what list_dead_letters returned: total is the number of entries
\* that match the filters, whatever limit and offset are; items holds at most
\* limit entries, each of them a matching entry, and they are exactly the
\* matching entries at positions offset .. offset + limit - 1, in order.
C31_ListIsSliceOfMatching ==
    listed.calls > 0 =>
        LET M == Matching(listed.at, listed.workflow_id, listed.error_type)
            n == Len(listed.items)
        IN  /\ listed.total = Cardinality(M)
            /\ n <= listed.limit
            /\ n = Cardinality({t \in M : /\ Rank(t, M) >= listed.offset
                                          /\ Rank(t, M) < listed.offset + listed.limit})
            /\ \A i \in 1 .. n :
                  /\ listed.items[i].task_id \in M
                  /\ listed.items[i] = listed.at[listed.items[i].task_id]
                  /\ Rank(listed.items[i].task_id, M) = listed.offset + i - 1

\* C31 witness: a call filtered by error type left out an entry of another
\* error type and returned the one that matches
C31_Witness ==
    /\ listed.calls > 0
    /\ listed.error_type = "TimeoutError"
    /\ listed.total = 1
    /\ Len(listed.items) = 1
    /\ \E t \in TaskIds : /\ listed.at[t] # NoPayload
                          /\ listed.at[t].error_type = "RuntimeError"

\* C31 witness of the paging: of two matching entries the second page of
\* size one holds the second, and total is still two
C31_WitnessPaged ==
    /\ listed.calls > 0
    /\ listed.limit = 1 /\ listed.offset = 1
    /\ listed.total = 2
    /\ Len(listed.items) = 1
    /\ listed.items[1].task_id = 2

\* the failures of pair i that the pool's pollers have recorded at times
\* t - AlertWindow .. t, given the pollers' lists r
InWindow(r, i, t) ==
    {<<w, k>> \in Workers \X (1 .. MaxTasks * (MaxRetries + MaxTime + 4)) :
        k \in DOMAIN r[w][i] /\ r[w][i][k] >= t - AlertWindow}

\* C32 (as claimed): when a poller records a terminal failure of a pair, with
\* alerting enabled and no cooldown running, the alert is triggered exactly
\* when the pair's failures recorded within the window exceed the threshold.
C32_TriggerIffExceeds ==
    [][\A w \in Workers : \A i \in Idents :
          (/\ running /\ running'
           /\ recent'[w][i] # recent[w][i]
           /\ cfg.alert /\ Cooled(lastAlert[w]))
          => ((pc'[w] = "alert")
              <=> Cardinality(InWindow(recent', i, now)) > AlertThreshold)]_vars

\* C33: the automatic requeue comes first and the alert evaluation after it:
\* while the requeue is in progress the poller's failure window and the
\* alerts are untouched; the step that completes the requeue records the
\* failure (now) in the pair's window and, with alerting enabled and no
\* cooldown running, goes on to the alert when the window then holds at
\* least AlertThreshold failures; the alert step whose Slack call succeeds
\* dispatches the alert.
C33_AutoRequeueThenAlert ==
    [][\A w \in Workers :
         /\ (/\ pc[w] \in {"dl_record", "rq_get", "rq_clear"}
             /\ pc'[w] \in {"rq_get", "rq_clear", "rq_enq"}
             /\ pc'[w] # pc[w])
            => (recent' = recent /\ alerts' = alerts)
         /\ (pc[w] = "rq_enq" /\ pc'[w] \notin {"rq_enq", "crashed", "off"})
            => LET i == Identifier(cur[w])
                   n == Len(recent'[w][i])
               IN  /\ autoDone'[i] = autoDone[i] + 1
                   /\ n >= 1 /\ recent'[w][i][n] = now
                   /\ (cfg.alert /\ n >= AlertThreshold /\ Cooled(lastAlert[w]))
                      => pc'[w] = "alert"
                   /\ pc'[w] \in {"alert", "poll"}
         /\ (pc[w] = "alert" /\ pc'[w] = "poll" /\ faults' = faults)
            => alerts' = alerts \cup {<<w, now>>}]_vars

\* C33 witness: the only failure so far was requeued automatically (the task
\* is back in the queue) and an alert was dispatched for it
C33_Witness ==
    /\ alerts # {}
    /\ \E t \in TaskIds :
          /\ invoked[t] = 1
          /\ t \in QueuedIds
          /\ \A u \in TaskIds \ {t} : invoked[u] = 0
    /\ \E i \in Idents : autoDone[i] = 1

\* C34 (as claimed): every write of a dead letter that follows a failed or
\* timed-out execution is followed by auto-triage: the poller goes on to the
\* automatic requeue, or counts the failure in the pair's window.
C34_EveryDeadLetterTriaged ==
    [][\A w \in Workers :
          (pc[w] \in {"dl_record", "dl_timeout"}
           /\ pc'[w] \notin {pc[w], "off", "crashed"})
          => \/ pc'[w] = "rq_get"
             \/ recent'[w][Identifier(cur[w])] # recent[w][Identifier(cur[w])]]_vars

\* C35 (as claimed): purge_dead_letters_older_than(age) on the store-backed
\* queue removes the entries recorded at or before now - age and returns
\* their number, as purge_dead_letters(older_than = age) does.
C35_OlderThanPurges ==
    [][PurgeReturns("older_than")
       => /\ purge'.ret = Cardinality(OldEntries(purge'))
          /\ \A t \in OldEntries(purge') : deadLetters'[t] = NoPayload]_vars

\* the pollers that are alive
LivePollers == {w \in Workers : pc[w] \notin {"off", "crashed"}}

\* C36 (as claimed): whenever no stop() call is in progress, a running queue
\* has exactly MaxWorkers live pollers and a stopped one has none, and at all
\* times every live poller is in the list that stop() cancels.
C36_PoolSize ==
    /\ (stopPc = "idle" /\ running) => Cardinality(LivePollers) = MaxWorkers
    /\ (stopPc = "idle" /\ ~running) => LivePollers = {}
    /\ LivePollers \subseteq workers

\* the state the claim excludes, pushed one call further: after a later
\* stop() has returned, the pollers it could not cancel are still alive
C36_OrphansAfterStop ==
    stopPc = "idle" /\ ~running /\ LivePollers = Workers /\ starts = MaxStarts

\* the n newest entries of a list kept newest first (all of it if shorter)
Newest(list, n) ==
    IF n <= 0 \/ Len(list) = 0 THEN << >>
    ELSE SubSeq(list, 1, IF n < Len(list) THEN n ELSE Len(list))

\* C37 (as claimed): once an append has returned, the audit list holds at most
\* max_entries entries, and they are the most recently appended ones with the
\* newest first; a read with limit k returns the k newest entries of the list
\* it finds (all of them if there are fewer).
C37_AuditCappedNewestFirst ==
    /\ (auditCall.pc = "idle" /\ auditCall.calls > 0)
          => /\ Len(audit) <= auditCall.max_entries
             /\ audit = Newest(auditCall.pushed, Len(audit))
    /\ auditCall.reads > 0
          => auditCall.items = Newest(auditCall.at, auditCall.limit)

\* the part of C37 the code keeps: the cap and the order after every append,
\* and every read with a limit of at least 1
C37_CapAndPositiveLimit ==
    /\ (auditCall.pc = "idle" /\ auditCall.calls > 0)
          => /\ Len(audit) <= auditCall.max_entries
             /\ audit = Newest(auditCall.pushed, Len(audit))
    /\ (auditCall.reads > 0 /\ auditCall.limit >= 1)
          => auditCall.items = Newest(auditCall.at, auditCall.limit)

\* the copies of task t in the live queue
Copies(t) == Cardinality({i \in DOMAIN queue : queue[i].task_id = t})

\* the pollers that are running the handler of task t, or about to
Runners(t) == Cardinality({w \in Workers : Executing(w, t)})

\* C38 (as claimed): interleaved requeue calls for one task_id re-enqueue it
\* at most once: the live queue never holds two copies of a task_id, and a
\* task is never queued while it is being executed nor executed by two
\* pollers at once.
C38_RequeueAtomic == \A t \in TaskIds : Copies(t) + Runners(t) <= 1

\* C39 (as claimed): whenever a dead-letter entry is written, its recorded_at
\* is the time of that write, also for a task that was requeued and is
\* dead-lettered again.
C39_RecordedAtIsFresh ==
    [][\A t \in TaskIds :
          (deadLetters'[t] # NoPayload /\ deadLetters'[t] # deadLetters[t])
          => deadLetters'[t].recorded_at = now]_vars

\* C40 (as claimed): while a task is in the live queue, the callable the
\* poller will look up for it (the registry entry of its name, once an
\* enqueue call of this process has set it) does not change, whatever is
\* enqueued later.
C40_HandlerFixedAtEnqueue ==
    [][\A i \in DOMAIN queue :
          registry[queue[i].name] # NoCallable
          => registry'[queue[i].name] = registry[queue[i].name]]_vars

====
